---- MODULE Spec2Model ----
(***************************************************************************)
(* Control plane of the SWIM VM manager: the provision and decommission   *)
(* queue workers, the handlers they spawn (one goroutine per popped       *)
(* payload), the rate gate, the per-user cache line, the cloud driver and *)
(* the expiry sweep.  Every Redis call and every cloud call of a handler  *)
(* is one atomic step; handlers interleave freely between calls.          *)
(***************************************************************************)
EXTENDS Integers, Sequences, FiniteSets, TLC

\* ------------------------------------------------------------------ bounds
MaxIntents == 2      \* intents the front-end pushes in one behaviour
MaxHandlers == 2     \* handler goroutines in flight at the same time
MaxFaults == 1       \* cloud or store calls that fail or time out in one behaviour
MaxSweeps == 2       \* passes of the expiry sweep in one behaviour
MaxSweepIntents == 1 \* intents pushed by the front-end while the sweep runs
MaxShutdownSweeps == 1 \* passes of the sweep before a shutdown
MaxTime == 2         \* clock ticks in one behaviour

Users == {"u1", "u2"}
\* The user whose intents are followed where one user is enough.
Actors == {"u1"}
Labs == {1, 2}
TTLTicks == 1        \* DEFAULT_TTL_MINUTES expressed in clock ticks

\* ------------------------------------------------------------- data model
\* redis.ServerState; serverId 0 and address 0 stand for the empty string.
NoRec ==
  [labId |-> 0, serverId |-> 0, address |-> 0, status |-> "none",
   available |-> FALSE, cloudStatus |-> "", expiresAt |-> 0, webUserId |-> ""]

StatusProvisioning == "provisioning"
StatusRunning == "running"
StatusStopping == "stopping"

\* A queue payload; labId 0 / serverId 0 mean the field is absent.
\* tag is a history label: the position of a front-end intent among the
\* pushed intents, that position marked "synth" for the decommission a
\* provision queues on a lab switch, "sweep" for an intent of the expiry sweep.
TagNone == <<"none", 0>>
TagEnv(n) == <<"env", n>>
TagSynth(t) == <<"synth", t[2]>>
TagSweep == <<"sweep", 0>>
Intent(u, l, s, t) == [user |-> u, labId |-> l, serverId |-> s, tag |-> t]

\* What a decommission intent asks for, without its history label.
NoKey == [user |-> "", labId |-> 0, serverId |-> 0]
Key(h) == [user |-> h.user, labId |-> h.labId, serverId |-> h.serverId]

\* The value of an environment option: not set, the empty string, text
\* that is no number, or the decimal text of n.
EnvUnset == [kind |-> "unset", n |-> 0]
EnvEmpty == [kind |-> "empty", n |-> 0]
EnvText == [kind |-> "text", n |-> 0]
EnvInt(n) == [kind |-> "int", n |-> n]

Idle ==
  [kind |-> "idle", pc |-> "idle", user |-> "", labId |-> 0, serverId |-> 0,
   tag |-> TagNone, vm |-> 0, last |-> "", exp |-> 0,
   existingState |-> NoRec, serverState |-> NoRec, attempt |-> 0,
   elapsed |-> 0, ttlEnv |-> EnvUnset, writtenAt |-> 0]

VARIABLES
  provQ,     \* vmmanager:provision
  decQ,      \* vmmanager:decommission
  store,     \* the keys under vmmanager:servers: and their records
  rl,        \* vmmanager:ratelimit:{webuserid}:{op} keys currently held
  vms,       \* cloud servers, index = server id
  hs,        \* handler goroutines in flight
  now,       \* clock
  sweeps,    \* passes of the expiry sweep so far
  swept,     \* history: per user, the record a pass last queued an intent for
  phase,     \* "run"; "cancelled" after the shutdown signal; "returned" once
             \* the wait for the handlers in flight is over
  boot,      \* history: what the store and the cloud held at start-up
  hist,      \* history: intents pushed by the front-end
  drops,     \* history: intents the rate gate dropped
  faults,    \* history: cloud or store calls that failed or timed out
  lastDone   \* history: the decommission request handled last, with no
             \* provisioner step since

vars == <<provQ, decQ, store, rl, vms, hs, now, sweeps, swept, phase, boot, hist, drops, faults, lastDone>>

Slots == 1..MaxHandlers

\* redis.ServerCacheKey: "vmmanager:servers:" followed by the webuserid; the
\* labId is no part of the key.  CacheKeys are the keys of the store that
\* are followed: the key of every user, that of a request whose webuserid
\* is empty, and those a key scheme with the labId in it would use.
ServerCachePrefix == "vmmanager:servers:"
ServerCacheKey(webuserid) == <<ServerCachePrefix, webuserid>>
CacheKeys ==
  {ServerCacheKey(u) : u \in Users \cup {""}}
    \cup {<<ServerCachePrefix, u, l>> : u \in Users, l \in Labs}
Found(rec) == rec # NoRec

\* What a client that reads the cache line of each user sees.
cache == [u \in Users |-> store[ServerCacheKey(u)]]

\* The address a connector.Server reports: the cloud gives the server's
\* IPv6 /64 network (0: none, the IP is nil) and newServer appends "1" to
\* it to name the host; with no network the address stays empty.
newServer(ip) == IF ip = 0 THEN 0 ELSE 10 * ip + 1

\* The store and the cloud outlive the process.  At start-up they hold what
\* earlier runs left at rest: nothing; a user's running lab; a server whose
\* cache line is gone; or a user's running lab next to the server of the
\* lab the user had before.
BootUser == "u1"
RunningRec(lab, id) ==
  [labId |-> lab, serverId |-> id, address |-> newServer(id), status |-> StatusRunning,
   available |-> TRUE, cloudStatus |-> "running", expiresAt |-> TTLTicks,
   webUserId |-> BootUser]
RunningVm(u, lab) ==
  [alive |-> TRUE, state |-> "running", owner |-> u, lab |-> lab, ip |-> lab]
Boots == {"empty", "lab", "orphan", "switched"}
BootCache(b) ==
  [u \in Users |->
     CASE u = BootUser /\ b = "lab" -> RunningRec(1, 1)
       [] u = BootUser /\ b = "switched" -> RunningRec(2, 2)
       [] OTHER -> NoRec]
BootVms(b) ==
  LET u == BootUser IN
    CASE b = "empty" -> <<>>
      [] b = "switched" -> <<RunningVm(u, 1), RunningVm(u, 2)>>
      [] OTHER -> <<RunningVm(u, 1)>>

Init ==
  /\ boot \in Boots
  /\ provQ = <<>>
  /\ decQ = <<>>
  /\ store = [k \in CacheKeys |->
                IF \E u \in Users : k = ServerCacheKey(u)
                  THEN BootCache(boot)[CHOOSE u \in Users : k = ServerCacheKey(u)]
                  ELSE NoRec]
  /\ rl = {}
  /\ vms = BootVms(boot)
  /\ hs = [i \in Slots |-> Idle]
  /\ now = 0
  /\ sweeps = 0
  /\ swept = [u \in Users |-> NoRec]
  /\ phase = "run"
  /\ hist = <<>>
  /\ drops = 0
  /\ faults = 0
  /\ lastDone = NoKey

\* ------------------------------------------------------------ the store
\* GET, SET and DEL of the key redis.ServerCacheKey makes for the user.
GetServerState(u) == store[ServerCacheKey(u)]
\* A store that keys a record by the user and the lab.
PushServerState_KeyedByLab(u, rec) ==
  [store EXCEPT ![<<ServerCachePrefix, u, rec.labId>>] = rec]
PushServerState(u, rec) == [store EXCEPT ![ServerCacheKey(u)] = rec]
DeleteServerState(u) == [store EXCEPT ![ServerCacheKey(u)] = NoRec]

\* SET NX on vmmanager:ratelimit:{user}:{op}: acquired iff the key is absent.
RateLimitKey(u, op) == <<u, op>>

\* A SET that does not look at the key: every caller acquires.
TryAcquireRateLimit_NoCheck(u, op) == TRUE
TryAcquireRateLimit(u, op) == RateLimitKey(u, op) \notin rl

\* ------------------------------------------------------- the cloud driver
\* MockConnector: a server is created "initializing" and turns "running"
\* on its own; Delete marks it deleted and "deleting".
NewServer(u, l) ==
  [alive |-> TRUE, state |-> "initializing", owner |-> u, lab |-> l,
   ip |-> Len(vms) + 1]
\* The server the cloud returns with no public IPv6 network
\* (server.PublicNet.IPv6.IP == nil).
NewServerNoIPv6(u, l) == [NewServer(u, l) EXCEPT !.ip = 0]
ServerExists(id) == id \in DOMAIN vms /\ vms[id].alive
MarkDeleted(id) == [vms EXCEPT ![id].alive = FALSE, ![id].state = "deleting"]
LiveVms(u) == {id \in DOMAIN vms : vms[id].alive /\ vms[id].owner = u}

\* ----------------------------------------------------- handler bookkeeping
Free == {i \in Slots : hs[i].kind = "idle"}
FirstFree == CHOOSE i \in Free : \A j \in Free : i <= j
Spawn(kind, it) ==
  [Idle EXCEPT !.kind = kind, !.pc = "rate", !.user = it.user,
               !.labId = it.labId, !.serverId = it.serverId, !.tag = it.tag]
At(i, kind, pc) == hs[i].kind = kind /\ hs[i].pc = pc
Goto(i, pc) == [hs EXCEPT ![i].pc = pc, ![i].attempt = 0]
Return(i) == [hs EXCEPT ![i] = Idle]

\* No intent is queued and no handler is in flight.
AtRest == provQ = <<>> /\ decQ = <<>> /\ Free = Slots

\* The record a front-end polling the cache line takes for a usable lab.
Running(rec) == rec.status = StatusRunning /\ rec.available

\* ------------------------------------------------------------- front-end
\* Each pushed intent is logged with what the front-end could see when it
\* pushed: whether the user's record was running (for a decommission: with
\* the intent's labId; for a provision: with another labId).
\* RPUSH of a provision intent {webuserid, labId}.
PushProvision(u, l) ==
  /\ Len(hist) < MaxIntents
  /\ LET it == Intent(u, l, 0, TagEnv(Len(hist) + 1)) IN
       /\ provQ' = Append(provQ, it)
       /\ hist' = Append(hist, [kind |-> "prov", intent |-> it,
                                run |-> Running(cache[u]) /\ cache[u].labId # l])
  /\ UNCHANGED <<decQ, store, rl, vms, hs, now, sweeps, swept, phase, drops, faults, boot, lastDone>>

\* RPUSH of a decommission intent {webuserid, labId?} or {webuserid, serverId};
\* intents that carry both fields come from the provisioner.
PushDecommission(u, l, s) ==
  /\ Len(hist) < MaxIntents
  /\ l = 0 \/ s = 0
  /\ LET it == Intent(u, l, s, TagEnv(Len(hist) + 1)) IN
       /\ decQ' = Append(decQ, it)
       /\ hist' = Append(hist, [kind |-> "dec", intent |-> it,
                                run |-> Running(cache[u]) /\ cache[u].labId = l])
  /\ UNCHANGED <<provQ, store, rl, vms, hs, now, sweeps, swept, phase, drops, faults, boot, lastDone>>

\* ------------------------------------------------------------ dispatcher
\* A pop from the wrong end of the list: the newest payload first.
PopProvision_NewestFirst ==
  /\ provQ # <<>>
  /\ Free # {}
  /\ hs' = [hs EXCEPT ![FirstFree] = Spawn("prov", provQ[Len(provQ)])]
  /\ provQ' = SubSeq(provQ, 1, Len(provQ) - 1)
  /\ UNCHANGED <<decQ, store, rl, vms, now, sweeps, swept, phase, hist, drops, faults, boot, lastDone>>

\* processQueue: BLPOP the head and run the handler in a goroutine of its own.
PopProvision ==
  /\ provQ # <<>>
  /\ Free # {}
  /\ hs' = [hs EXCEPT ![FirstFree] = Spawn("prov", Head(provQ))]
  /\ provQ' = Tail(provQ)
  /\ UNCHANGED <<decQ, store, rl, vms, now, sweeps, swept, phase, hist, drops, faults, boot, lastDone>>

PopDecommission ==
  /\ decQ # <<>>
  /\ Free # {}
  /\ hs' = [hs EXCEPT ![FirstFree] = Spawn("dec", Head(decQ))]
  /\ decQ' = Tail(decQ)
  /\ UNCHANGED <<provQ, store, rl, vms, now, sweeps, swept, phase, hist, drops, faults, boot, lastDone>>

\* ----------------------------------------------------------- provisioner
\* mapCloudStateToStatus
mapCloudStateToStatus(cloudState) ==
  CASE cloudState = "running" -> StatusRunning
    [] cloudState \in {"starting", "initializing"} -> StatusProvisioning
    [] cloudState \in {"stopping", "off", "deleting"} -> StatusStopping
    [] OTHER -> StatusProvisioning

\* isServerAvailable
isServerAvailable(cloudState) == cloudState = "running"

\* The duplicate test narrowed to records that are already running.
SameLab_OnlyRunning(existing, lab) ==
  existing.labId = lab /\ existing.status = StatusRunning

\* existingState.LabID == req.LabID: the intent duplicates the cached lab.
SameLab(existing, lab) == existing.labId = lab

\* The payload without the old server's id: {webuserid, labId} alone.
DecommissionPayload_NoServerId(u, existing, t) ==
  Intent(u, existing.labId, 0, TagSynth(t))

\* The payload queued for the old server on a lab switch.
DecommissionPayload(u, existing, t) ==
  Intent(u, existing.labId, existing.serverId, TagSynth(t))

\* initialState: the record written before the server is created.
InitialState(u, lab, expiresAt) ==
  [labId |-> lab, serverId |-> 0, address |-> 0, status |-> StatusProvisioning,
   available |-> FALSE, cloudStatus |-> "", expiresAt |-> expiresAt,
   webUserId |-> u]

\* serverState: the record written once the server exists.
ServerStateOf(u, lab, id, cloudState, expiresAt) ==
  [labId |-> lab, serverId |-> id, address |-> newServer(vms[id].ip),
   status |-> mapCloudStateToStatus(cloudState),
   available |-> isServerAvailable(cloudState),
   cloudStatus |-> cloudState, expiresAt |-> expiresAt, webUserId |-> u]

\* The poll loop's update of its serverState copy.
Observed(rec, cloudState) ==
  [rec EXCEPT !.status = mapCloudStateToStatus(cloudState),
              !.available = isServerAvailable(cloudState),
              !.cloudStatus = cloudState]

\* tryAcquireRateLimitWithRetry: a denied intent is dropped.
\* (Every provisioner step clears lastDone.)
ProvRate(i) ==
  /\ At(i, "prov", "rate")
  /\ IF TryAcquireRateLimit(hs[i].user, "provision")
       THEN /\ rl' = rl \cup {RateLimitKey(hs[i].user, "provision")}
            /\ hs' = Goto(i, "read")
            /\ UNCHANGED drops
       ELSE /\ hs' = Return(i)
            /\ drops' = drops + 1
            /\ UNCHANGED rl
  /\ UNCHANGED <<provQ, decQ, store, vms, now, sweeps, swept, phase, hist, faults, boot>>
  /\ lastDone' = NoKey

\* getServerStateWithRetry and the branch on the existing record.
ProvRead(i) ==
  /\ At(i, "prov", "read")
  /\ LET existing == GetServerState(hs[i].user) IN
       hs' = IF ~Found(existing) THEN Goto(i, "init")
             ELSE IF SameLab(existing, hs[i].labId) THEN Return(i)
             ELSE [hs EXCEPT ![i].pc = "enq", ![i].existingState = existing,
                             ![i].attempt = 0]
  /\ UNCHANGED <<provQ, decQ, store, rl, vms, now, sweeps, swept, phase, hist, drops, faults, boot>>
  /\ lastDone' = NoKey

\* PushPayload of the decommission request for the old server.
ProvEnqueue(i) ==
  /\ At(i, "prov", "enq")
  /\ decQ' = Append(decQ, DecommissionPayload(hs[i].user, hs[i].existingState, hs[i].tag))
  /\ hs' = [hs EXCEPT ![i].pc = "init", ![i].existingState = NoRec]
  /\ UNCHANGED <<provQ, store, rl, vms, now, sweeps, swept, phase, hist, drops, faults, boot>>
  /\ lastDone' = NoKey

\* PushServerState of the initial record; expiresAt = now + TTL.
ProvInit(i) ==
  /\ At(i, "prov", "init")
  /\ LET expiresAt == now + TTLTicks IN
       /\ store' = PushServerState(hs[i].user, InitialState(hs[i].user, hs[i].labId, expiresAt))
       /\ hs' = [hs EXCEPT ![i].pc = "create", ![i].exp = expiresAt]
  /\ UNCHANGED <<provQ, decQ, rl, vms, now, sweeps, swept, phase, hist, drops, faults, boot>>
  /\ lastDone' = NoKey

\* conn.CreateServer: a new server, or an error that leaves nothing behind.
ProvCreate(i) ==
  /\ At(i, "prov", "create")
  /\ \/ /\ vms' = Append(vms, NewServer(hs[i].user, hs[i].labId))
        /\ hs' = [hs EXCEPT ![i].pc = "state0", ![i].vm = Len(vms) + 1]
        /\ UNCHANGED faults
     \/ /\ faults < MaxFaults
        /\ faults' = faults + 1
        /\ hs' = Goto(i, "createFail")
        /\ UNCHANGED vms
  /\ UNCHANGED <<provQ, decQ, store, rl, now, sweeps, swept, phase, hist, drops, boot>>
  /\ lastDone' = NoKey

\* CreateServer returns a server that has no public IPv6 network.
ProvCreateNoIPv6(i) ==
  /\ At(i, "prov", "create")
  /\ vms' = Append(vms, NewServerNoIPv6(hs[i].user, hs[i].labId))
  /\ hs' = [hs EXCEPT ![i].pc = "state0", ![i].vm = Len(vms) + 1]
  /\ UNCHANGED <<provQ, decQ, store, rl, now, sweeps, swept, phase, hist, drops,
                 faults, boot>>
  /\ lastDone' = NoKey

\* A failed CreateServer that leaves the initial record in the cache.
ProvCreateFail_KeepsRecord(i) ==
  /\ At(i, "prov", "createFail")
  /\ hs' = Return(i)
  /\ UNCHANGED <<provQ, decQ, store, rl, vms, now, sweeps, swept, phase, hist, drops, faults, boot>>
  /\ lastDone' = NoKey

\* DeleteServerState after a failed CreateServer.
ProvCreateFail(i) ==
  /\ At(i, "prov", "createFail")
  /\ store' = DeleteServerState(hs[i].user)
  /\ hs' = Return(i)
  /\ UNCHANGED <<provQ, decQ, rl, vms, now, sweeps, swept, phase, hist, drops, faults, boot>>
  /\ lastDone' = NoKey

\* server.GetState right after creation; an error reads as "unknown".
ProvInitialState(i) ==
  /\ At(i, "prov", "state0")
  /\ LET cloudState == IF vms[hs[i].vm].alive THEN vms[hs[i].vm].state ELSE "unknown" IN
       hs' = [hs EXCEPT ![i].pc = "write", ![i].last = cloudState,
                        ![i].serverState =
                           ServerStateOf(hs[i].user, hs[i].labId, hs[i].vm, cloudState, hs[i].exp)]
  /\ UNCHANGED <<provQ, decQ, store, rl, vms, now, sweeps, swept, phase, hist, drops, faults, boot>>
  /\ lastDone' = NoKey

\* PushServerState of the record that carries the server's id and address.
ProvWrite(i) ==
  /\ At(i, "prov", "write")
  /\ store' = PushServerState(hs[i].user, hs[i].serverState)
  /\ hs' = Goto(i, "poll")
  /\ UNCHANGED <<provQ, decQ, rl, vms, now, sweeps, swept, phase, hist, drops, faults, boot>>
  /\ lastDone' = NoKey

\* A timeout that also removes the user's cache entry.
ProvTimeout_ClearsRecord(i) ==
  /\ At(i, "prov", "poll")
  /\ faults < MaxFaults
  /\ faults' = faults + 1
  /\ store' = DeleteServerState(hs[i].user)
  /\ hs' = Return(i)
  /\ UNCHANGED <<provQ, decQ, rl, vms, now, sweeps, swept, phase, hist, drops, boot>>
  /\ lastDone' = NoKey

\* pollServerState, case <-timeout: return, the record stays as it is.
\* A server that stays short of "running" for stateTimeout counts as a fault.
ProvTimeout(i) ==
  /\ At(i, "prov", "poll")
  /\ faults < MaxFaults
  /\ faults' = faults + 1
  /\ hs' = Return(i)
  /\ UNCHANGED <<provQ, decQ, store, rl, vms, now, sweeps, swept, phase, hist, drops, boot>>
  /\ lastDone' = NoKey

\* A poll loop whose timeout channel is made anew in every round of the
\* select, so that each tick of the poller starts the wait again.
ProvPoll_RearmsTimer(i) ==
  /\ At(i, "prov", "poll")
  /\ LET id == hs[i].vm IN
       hs' = IF ~vms[id].alive THEN Goto(i, "errDel")
             ELSE IF vms[id].state # hs[i].last
               THEN [hs EXCEPT ![i].pc = "update", ![i].last = vms[id].state,
                               ![i].elapsed = 0,
                               ![i].serverState =
                                  Observed(hs[i].serverState, vms[id].state)]
             ELSE IF vms[id].state = "running" THEN Return(i)
             ELSE [hs EXCEPT ![i].elapsed = 0]
  /\ UNCHANGED <<provQ, decQ, store, rl, vms, now, sweeps, swept, phase, hist, drops,
                 faults, boot>>
  /\ lastDone' = NoKey

\* pollServerState, case <-ticker.C: server.GetState and the branch on it.
\* GetState fails on a deleted server, and may fail on a live one.
ProvPoll(i) ==
  /\ At(i, "prov", "poll")
  /\ LET id == hs[i].vm IN
       \/ /\ hs' = IF ~vms[id].alive THEN Goto(i, "errDel")
                    ELSE IF vms[id].state # hs[i].last
                      THEN [hs EXCEPT ![i].pc = "update", ![i].last = vms[id].state,
                                      ![i].serverState =
                                         Observed(hs[i].serverState, vms[id].state)]
                    ELSE IF vms[id].state = "running" THEN Return(i)
                    ELSE hs
          /\ UNCHANGED faults
       \/ /\ vms[id].alive
          /\ faults < MaxFaults
          /\ faults' = faults + 1
          /\ hs' = Goto(i, "errDel")
  /\ UNCHANGED <<provQ, decQ, store, rl, vms, now, sweeps, swept, phase, hist, drops, boot>>
  /\ lastDone' = NoKey

\* PushServerState of a changed state; the loop ends once it is "running".
\* A failed write leads to handleProvisioningError.
ProvUpdate(i) ==
  /\ At(i, "prov", "update")
  /\ \/ /\ store' = PushServerState(hs[i].user, hs[i].serverState)
        /\ hs' = IF hs[i].last = "running" THEN Return(i) ELSE Goto(i, "poll")
        /\ UNCHANGED faults
     \/ /\ faults < MaxFaults
        /\ faults' = faults + 1
        /\ hs' = Goto(i, "errDel")
        /\ UNCHANGED store
  /\ UNCHANGED <<provQ, decQ, rl, vms, now, sweeps, swept, phase, hist, drops, boot>>
  /\ lastDone' = NoKey

\* handleProvisioningError without the call of server.Delete.
ProvErrorDelete_SkipsDelete(i) ==
  /\ At(i, "prov", "errDel")
  /\ hs' = Goto(i, "errCache")
  /\ UNCHANGED <<provQ, decQ, store, rl, vms, now, sweeps, swept, phase, hist, drops, faults, boot>>
  /\ lastDone' = NoKey

\* handleProvisioningError: server.Delete, whose error is only logged.
ProvErrorDelete(i) ==
  /\ At(i, "prov", "errDel")
  /\ IF ServerExists(hs[i].vm)
       THEN \/ vms' = MarkDeleted(hs[i].vm) /\ UNCHANGED faults
            \/ faults < MaxFaults /\ faults' = faults + 1 /\ UNCHANGED vms
       ELSE UNCHANGED <<vms, faults>>
  /\ hs' = Goto(i, "errCache")
  /\ UNCHANGED <<provQ, decQ, store, rl, now, sweeps, swept, phase, hist, drops, boot>>
  /\ lastDone' = NoKey

\* handleProvisioningError: DeleteServerState.
ProvErrorCache(i) ==
  /\ At(i, "prov", "errCache")
  /\ store' = DeleteServerState(hs[i].user)
  /\ hs' = Return(i)
  /\ UNCHANGED <<provQ, decQ, rl, vms, now, sweeps, swept, phase, hist, drops, faults, boot>>
  /\ lastDone' = NoKey

\* --------------------------------------------------------- decommissioner
\* History: when handler i returns, its request becomes the one handled last,
\* unless another decommission handler is past the rate gate at that moment;
\* a step of a handler that serves another request clears the mark.
Handled(i) ==
  IF hs'[i].kind # "idle"
    THEN IF lastDone = Key(hs[i]) THEN lastDone ELSE NoKey
  ELSE IF \E j \in Slots \ {i} : hs[j].kind = "dec" /\ hs[j].pc # "rate" THEN NoKey
  ELSE Key(hs[i])

\* The labId of the request never validated against the record.
LabMismatch_Unchecked(lab, rec) == FALSE

\* A test that takes an intent without labId for a mismatch.
LabMismatch_RequiresLab(lab, rec) == rec.labId # lab

\* req.LabID != nil && serverState.LabID != *req.LabID
LabMismatch(lab, rec) == lab # 0 /\ rec.labId # lab

\* A stopping record that is still marked available.
Stopping_KeepsAvailable(rec) ==
  [rec EXCEPT !.status = StatusStopping, !.cloudStatus = "stopping"]

\* A stopping mark that only clears the available flag.
Stopping_OnlyAvailable(rec) == [rec EXCEPT !.available = FALSE]

\* deleteServer: the copy of the record marked as stopping.
Stopping(rec) ==
  [rec EXCEPT !.status = StatusStopping, !.available = FALSE, !.cloudStatus = "stopping"]

\* A rate gate that puts a denied intent back on the queue.
DecRate_RequeuesDenied(i) ==
  /\ At(i, "dec", "rate")
  /\ IF TryAcquireRateLimit(hs[i].user, "decommission")
       THEN /\ rl' = rl \cup {RateLimitKey(hs[i].user, "decommission")}
            /\ hs' = Goto(i, "read")
            /\ UNCHANGED <<drops, decQ>>
       ELSE /\ hs' = Return(i)
            /\ drops' = drops + 1
            /\ decQ' = Append(decQ, Intent(hs[i].user, hs[i].labId, hs[i].serverId, hs[i].tag))
            /\ UNCHANGED rl
  /\ UNCHANGED <<provQ, store, vms, now, sweeps, swept, phase, hist, faults, boot, lastDone>>

\* tryAcquireRateLimitWithRetry: a denied intent is dropped.
DecRate(i) ==
  /\ At(i, "dec", "rate")
  /\ IF TryAcquireRateLimit(hs[i].user, "decommission")
       THEN /\ rl' = rl \cup {RateLimitKey(hs[i].user, "decommission")}
            /\ hs' = Goto(i, "read")
            /\ UNCHANGED drops
       ELSE /\ hs' = Return(i)
            /\ drops' = drops + 1
            /\ UNCHANGED rl
  /\ UNCHANGED <<provQ, decQ, store, vms, now, sweeps, swept, phase, hist, faults, boot, lastDone>>

\* GetServerState and the choice of the path: cache miss, labId mismatch
\* (each with or without a serverId in the request), or the matching case.
DecRead(i) ==
  /\ At(i, "dec", "read")
  /\ LET rec == GetServerState(hs[i].user) IN
       hs' = IF ~Found(rec) \/ LabMismatch(hs[i].labId, rec)
               THEN IF hs[i].serverId # 0 THEN Goto(i, "byId") ELSE Return(i)
               ELSE [hs EXCEPT ![i].pc = "stopping", ![i].serverState = Stopping(rec)]
  /\ UNCHANGED <<provQ, decQ, store, rl, vms, now, sweeps, swept, phase, hist, drops, faults, boot>>
  /\ lastDone' = Handled(i)

\* deleteServerByID: GetServerByID; a server that is not found ends the path.
DecByIdLookup(i) ==
  /\ At(i, "dec", "byId")
  /\ hs' = IF ServerExists(hs[i].serverId) THEN Goto(i, "byIdDel") ELSE Return(i)
  /\ UNCHANGED <<provQ, decQ, store, rl, vms, now, sweeps, swept, phase, hist, drops, faults, boot>>
  /\ lastDone' = Handled(i)

\* deleteServerByID that also removes the user's cache entry.
DecByIdDelete_ClearsCache(i) ==
  /\ At(i, "dec", "byIdDel")
  /\ \/ /\ ServerExists(hs[i].serverId)
        /\ vms' = MarkDeleted(hs[i].serverId)
        /\ UNCHANGED faults
     \/ /\ ~ServerExists(hs[i].serverId)
        /\ UNCHANGED <<vms, faults>>
     \/ /\ ServerExists(hs[i].serverId)
        /\ faults < MaxFaults
        /\ faults' = faults + 1
        /\ UNCHANGED vms
  /\ store' = DeleteServerState(hs[i].user)
  /\ hs' = Return(i)
  /\ UNCHANGED <<provQ, decQ, rl, now, sweeps, swept, phase, hist, drops, boot>>
  /\ lastDone' = Handled(i)

\* deleteServerByID: server.Delete.
DecByIdDelete(i) ==
  /\ At(i, "dec", "byIdDel")
  /\ \/ /\ ServerExists(hs[i].serverId)
        /\ vms' = MarkDeleted(hs[i].serverId)
        /\ UNCHANGED faults
     \/ /\ ~ServerExists(hs[i].serverId)
        /\ UNCHANGED <<vms, faults>>
     \/ /\ ServerExists(hs[i].serverId)
        /\ faults < MaxFaults
        /\ faults' = faults + 1
        /\ UNCHANGED vms
  /\ hs' = Return(i)
  /\ UNCHANGED <<provQ, decQ, store, rl, now, sweeps, swept, phase, hist, drops, boot>>
  /\ lastDone' = Handled(i)

\* deleteServer: PushServerState of the stopping record.
DecStopping(i) ==
  /\ At(i, "dec", "stopping")
  /\ store' = PushServerState(hs[i].user, hs[i].serverState)
  /\ hs' = Goto(i, "lookup")
  /\ UNCHANGED <<provQ, decQ, rl, vms, now, sweeps, swept, phase, hist, drops, faults, boot>>
  /\ lastDone' = Handled(i)

\* deleteServer: GetServerByID(serverState.ServerID).
DecLookup(i) ==
  /\ At(i, "dec", "lookup")
  /\ hs' = IF ServerExists(hs[i].serverState.serverId)
             THEN Goto(i, "del") ELSE Goto(i, "rmMissing")
  /\ UNCHANGED <<provQ, decQ, store, rl, vms, now, sweeps, swept, phase, hist, drops, faults, boot>>
  /\ lastDone' = Handled(i)

\* deleteServer: DeleteServerState for a server that was not found.
DecRemoveMissing(i) ==
  /\ At(i, "dec", "rmMissing")
  /\ store' = DeleteServerState(hs[i].user)
  /\ hs' = Return(i)
  /\ UNCHANGED <<provQ, decQ, rl, vms, now, sweeps, swept, phase, hist, drops, faults, boot>>
  /\ lastDone' = Handled(i)

\* deleteServer that goes on to remove the cache entry after a failed Delete.
DecDelete_AlwaysRemoves(i) ==
  /\ At(i, "dec", "del")
  /\ LET id == hs[i].serverState.serverId IN
       \/ /\ ServerExists(id)
          /\ vms' = MarkDeleted(id)
          /\ UNCHANGED faults
       \/ /\ ~ServerExists(id)
          /\ UNCHANGED <<vms, faults>>
       \/ /\ ServerExists(id)
          /\ faults < MaxFaults
          /\ faults' = faults + 1
          /\ UNCHANGED vms
  /\ hs' = Goto(i, "rm")
  /\ UNCHANGED <<provQ, decQ, store, rl, now, sweeps, swept, phase, hist, drops, boot>>
  /\ lastDone' = Handled(i)

\* deleteServer: server.Delete; on an error the handler returns at once.
DecDelete(i) ==
  /\ At(i, "dec", "del")
  /\ LET id == hs[i].serverState.serverId IN
       \/ /\ ServerExists(id)
          /\ vms' = MarkDeleted(id)
          /\ hs' = Goto(i, "rm")
          /\ UNCHANGED faults
       \/ /\ ~ServerExists(id)
          /\ hs' = Return(i)
          /\ UNCHANGED <<vms, faults>>
       \/ /\ ServerExists(id)
          /\ faults < MaxFaults
          /\ faults' = faults + 1
          /\ hs' = Return(i)
          /\ UNCHANGED vms
  /\ UNCHANGED <<provQ, decQ, store, rl, now, sweeps, swept, phase, hist, drops, boot>>
  /\ lastDone' = Handled(i)

\* deleteServer that returns after a successful Delete with the record kept.
DecRemove_KeepsRecord(i) ==
  /\ At(i, "dec", "rm")
  /\ hs' = Return(i)
  /\ UNCHANGED <<provQ, decQ, store, rl, vms, now, sweeps, swept, phase, hist, drops, faults, boot>>
  /\ lastDone' = Handled(i)

\* deleteServer: DeleteServerState after the server was deleted.
DecRemove(i) ==
  /\ At(i, "dec", "rm")
  /\ store' = DeleteServerState(hs[i].user)
  /\ hs' = Return(i)
  /\ UNCHANGED <<provQ, decQ, rl, vms, now, sweeps, swept, phase, hist, drops, faults, boot>>
  /\ lastDone' = Handled(i)

\* ------------------------------------------------------------ environment
\* The mock server's own transition to "running".
VmRunning(id) ==
  /\ vms[id].alive
  /\ vms[id].state = "initializing"
  /\ vms' = [vms EXCEPT ![id].state = "running"]
  /\ UNCHANGED <<provQ, decQ, store, rl, hs, now, sweeps, swept, phase, hist, drops, faults, boot, lastDone>>

\* The TTL of a rate-limit key runs out.
RateExpire(k) ==
  /\ k \in rl
  /\ rl' = rl \ {k}
  /\ UNCHANGED <<provQ, decQ, store, vms, hs, now, sweeps, swept, phase, hist, drops, faults, boot, lastDone>>

Tick ==
  /\ now < MaxTime
  /\ now' = now + 1
  /\ UNCHANGED <<provQ, decQ, store, rl, vms, hs, sweeps, swept, phase, hist, drops, faults, boot, lastDone>>

\* ---------------------------------------------------------- expiry sweep
\* A comparison that counts a record as expired at its expiresAt already.
Expired_Inclusive(rec) == Found(rec) /\ rec.expiresAt <= now

\* One pass: every record whose expiresAt lies before now gets a
\* decommission intent {webuserid, labId}.
Expired(rec) == Found(rec) /\ rec.expiresAt < now

RECURSIVE SweepIntents(_)
SweepIntents(ks) ==
  IF ks = {} THEN <<>>
  ELSE LET k == CHOOSE x \in ks : TRUE IN
         (IF Expired(store[k])
            THEN <<Intent(store[k].webUserId, store[k].labId, 0, TagSweep)>>
            ELSE <<>>)
           \o SweepIntents(ks \ {k})

\* A pass that deletes the servers of the expired records and their cache
\* entries itself.
Sweep_DeletesDirectly ==
  /\ sweeps < MaxSweeps
  /\ sweeps' = sweeps + 1
  /\ swept' = [u \in Users |-> IF Expired(cache[u]) THEN cache[u] ELSE swept[u]]
  /\ vms' = [id \in DOMAIN vms |->
               IF \E u \in Users : Expired(cache[u]) /\ cache[u].serverId = id
                 THEN MarkDeleted(id)[id] ELSE vms[id]]
  /\ store' = [k \in CacheKeys |-> IF Expired(store[k]) THEN NoRec ELSE store[k]]
  /\ UNCHANGED <<provQ, decQ, rl, hs, now, phase, hist, drops, faults, boot, lastDone>>

Sweep ==
  /\ sweeps < MaxSweeps
  /\ sweeps' = sweeps + 1
  /\ decQ' = decQ \o SweepIntents(CacheKeys)
  /\ swept' = [u \in Users |-> IF Expired(cache[u]) THEN cache[u] ELSE swept[u]]
  /\ UNCHANGED <<provQ, store, rl, vms, hs, now, phase, hist, drops, faults, boot, lastDone>>

\* ------------------------------------------------------------------ system
\* The front-end: whoever pushes intents onto the two queues.
FrontEnd ==
  \/ \E u \in Actors, l \in Labs : PushProvision(u, l)
  \/ \E u \in Actors, l \in Labs \cup {0}, s \in 0..Len(vms) : PushDecommission(u, l, s)

\* The steps of handler i that are calls of the store (they take the
\* process context) ...
StoreSteps(i) ==
  \/ ProvRate(i) \/ ProvRead(i) \/ ProvEnqueue(i) \/ ProvInit(i)
  \/ ProvCreateFail(i) \/ ProvWrite(i) \/ ProvUpdate(i) \/ ProvErrorCache(i)
  \/ DecRate(i) \/ DecRead(i) \/ DecStopping(i) \/ DecRemoveMissing(i)
  \/ DecRemove(i)

\* ... and those that are calls of the cloud driver or the poll loop's timer
\* (they take no context).
CloudSteps(i) ==
  \/ ProvCreate(i) \/ ProvInitialState(i) \/ ProvTimeout(i) \/ ProvPoll(i)
  \/ ProvErrorDelete(i)
  \/ DecByIdLookup(i) \/ DecByIdDelete(i) \/ DecLookup(i) \/ DecDelete(i)

\* The dispatcher, the handlers in flight, the cloud and the key TTLs.
Workers ==
  \/ PopProvision
  \/ PopDecommission
  \/ \E i \in Slots : StoreSteps(i) \/ CloudSteps(i)
  \/ \E id \in DOMAIN vms : VmRunning(id)
  \/ \E k \in rl : RateExpire(k)

Next == FrontEnd \/ Workers

Spec == Init /\ [][Next]_vars

\* The same system with the clock and the expiry sweep running, and a
\* front-end that pushes at most MaxSweepIntents intents.
NextSweep ==
  \/ Len(hist) < MaxSweepIntents /\ FrontEnd
  \/ Workers
  \/ Tick
  \/ Sweep

SweepSpec == Init /\ [][NextSweep]_vars

\* ---------------------------------------------------------------- shutdown
\* processQueue in two steps: BLPOP returns the head of the queue (the
\* payload is now held by the loop, in no handler and not yet counted by
\* the WaitGroup) ...
TakePayload(kind) ==
  /\ phase = "run"
  /\ Free # {}
  /\ IF kind = "prov"
       THEN /\ provQ # <<>>
            /\ hs' = [hs EXCEPT ![FirstFree] = [Spawn("prov", Head(provQ)) EXCEPT !.pc = "spawn"]]
            /\ provQ' = Tail(provQ)
            /\ UNCHANGED decQ
       ELSE /\ decQ # <<>>
            /\ hs' = [hs EXCEPT ![FirstFree] = [Spawn("dec", Head(decQ)) EXCEPT !.pc = "spawn"]]
            /\ decQ' = Tail(decQ)
            /\ UNCHANGED provQ
  /\ UNCHANGED <<store, rl, vms, now, sweeps, swept, phase, hist, drops, faults, boot, lastDone>>

\* ... and wg.Add(1); go handler(payload).  The loop looks at ctx.Done only
\* before the BLPOP, so this step does not depend on the phase.
StartHandler(i) ==
  /\ hs[i].pc = "spawn"
  /\ hs' = Goto(i, "rate")
  /\ UNCHANGED <<provQ, decQ, store, rl, vms, now, sweeps, swept, phase, hist, drops, faults, boot, lastDone>>

\* The handlers the WaitGroup counts.
Started == {i \in Slots : hs[i].kind # "idle" /\ hs[i].pc # "spawn"}

\* The shutdown signal: cancel().
Cancel ==
  /\ phase = "run"
  /\ phase' = "cancelled"
  /\ UNCHANGED <<provQ, decQ, store, rl, vms, hs, now, sweeps, swept, hist, drops, faults, boot, lastDone>>

\* runQueueProcessor: <-ctx.Done(); wg.Wait() returns once the count is zero.
WaitReturns ==
  /\ phase = "cancelled"
  /\ Started = {}
  /\ phase' = "returned"
  /\ UNCHANGED <<provQ, decQ, store, rl, vms, hs, now, sweeps, swept, hist, drops, faults, boot, lastDone>>

CacheReadRetryAttempts == 3

\* The calls made through a retry helper: TryAcquireRateLimit of either
\* handler and the provisioner's GetServerState.
RetriedPcs == {<<"prov", "rate">>, <<"prov", "read">>, <<"dec", "rate">>}

\* A retry helper that gives up after the second failed attempt.
StoreCallErrs_TwoAttempts(i) ==
  /\ <<hs[i].kind, hs[i].pc>> \in RetriedPcs
  /\ faults < MaxFaults
  /\ IF hs[i].attempt + 1 < 2
       THEN hs' = [hs EXCEPT ![i].attempt = @ + 1] /\ UNCHANGED faults
       ELSE hs' = Return(i) /\ faults' = faults + 1
  /\ lastDone' = IF hs[i].kind = "prov" THEN NoKey ELSE lastDone
  /\ UNCHANGED <<provQ, decQ, store, rl, vms, now, sweeps, swept, phase, hist,
                 drops, boot>>

\* The store answers a retried call with an I/O error: the helper counts
\* the attempt and calls again, or returns the error after the last
\* attempt, and the handler returns (which counts as one fault).
StoreCallErrs(i) ==
  /\ <<hs[i].kind, hs[i].pc>> \in RetriedPcs
  /\ faults < MaxFaults
  /\ IF hs[i].attempt + 1 < CacheReadRetryAttempts
       THEN hs' = [hs EXCEPT ![i].attempt = @ + 1] /\ UNCHANGED faults
       ELSE hs' = Return(i) /\ faults' = faults + 1
  /\ lastDone' = IF hs[i].kind = "prov" THEN NoKey ELSE lastDone
  /\ UNCHANGED <<provQ, decQ, store, rl, vms, now, sweeps, swept, phase, hist,
                 drops, boot>>

\* A store call made with the cancelled context fails, and the handler goes
\* on as its code does after an error of that call: a retry helper sleeps
\* (time.Sleep, whatever the context) and calls again until its last attempt.
StorePcs ==
  {<<"prov", "rate">>, <<"prov", "read">>, <<"prov", "enq">>, <<"prov", "init">>,
   <<"prov", "createFail">>, <<"prov", "write">>, <<"prov", "update">>,
   <<"prov", "errCache">>, <<"dec", "rate">>, <<"dec", "read">>,
   <<"dec", "stopping">>, <<"dec", "rmMissing">>, <<"dec", "rm">>}

StoreCallFails(i) ==
  /\ phase # "run"
  /\ <<hs[i].kind, hs[i].pc>> \in StorePcs
  /\ hs' = CASE At(i, "prov", "enq") ->
                  [hs EXCEPT ![i].pc = "init", ![i].existingState = NoRec]
             [] At(i, "prov", "init") ->
                  [hs EXCEPT ![i].pc = "create", ![i].exp = now + TTLTicks]
             [] At(i, "prov", "write") -> Goto(i, "poll")
             [] At(i, "prov", "update") -> Goto(i, "errDel")
             [] At(i, "dec", "read") ->
                  IF hs[i].serverId # 0 THEN Goto(i, "byId") ELSE Return(i)
             [] At(i, "dec", "stopping") -> Goto(i, "lookup")
             [] <<hs[i].kind, hs[i].pc>> \in RetriedPcs
                  /\ hs[i].attempt + 1 < CacheReadRetryAttempts ->
                  [hs EXCEPT ![i].attempt = @ + 1]
             [] OTHER -> Return(i)
  /\ lastDone' = NoKey
  /\ UNCHANGED <<provQ, decQ, store, rl, vms, now, sweeps, swept, phase, hist, drops, faults, boot>>

\* pollServerState, case <-ctx.Done(): return.
ProvStop(i) ==
  /\ phase # "run"
  /\ At(i, "prov", "poll")
  /\ hs' = Return(i)
  /\ lastDone' = NoKey
  /\ UNCHANGED <<provQ, decQ, store, rl, vms, now, sweeps, swept, phase, hist, drops, faults, boot>>

\* The system with its shutdown: until the signal, the store calls succeed
\* and the loops and the sweep run; the cloud calls and the poll loop's
\* ticker go on in every phase.  The clock and the key TTLs matter to the
\* sweep and the rate gate only, which both need the store.
NextShutdown ==
  \/ /\ phase = "run"
     /\ \/ Len(hist) < MaxSweepIntents /\ FrontEnd
        \/ \E i \in Slots : StoreSteps(i)
        \/ \E i \in Slots : StoreCallErrs(i)
        \/ \E k \in rl : RateExpire(k)
        \/ Tick
        \/ sweeps < MaxShutdownSweeps /\ Sweep
  \/ \E kind \in {"prov", "dec"} : TakePayload(kind)
  \/ \E i \in Slots : StartHandler(i) \/ CloudSteps(i) \/ StoreCallFails(i) \/ ProvStop(i)
  \/ \E id \in DOMAIN vms : VmRunning(id)
  \/ Cancel
  \/ WaitReturns

ShutdownSpec == Init /\ [][NextShutdown]_vars

\* ================================================================== claims
\* The store and the cloud agree at start-up: every live server is the one
\* its owner's record names.
ConsistentBoot == boot \in {"empty", "lab"}

\* Handler i takes the step.
Stepped(i) == hs'[i] # hs[i]

\* C1: a created VM never ends up alive with no cache record naming it and
\* nothing left that would delete it.  With no cloud fault, no timeout and no
\* intent dropped, once the queues are empty and no handler is in flight
\* (nothing is left to delete a VM), every live VM is named by the serverId
\* of a cache record.
C1_NoLeakedVm ==
  (ConsistentBoot /\ AtRest /\ faults = 0 /\ drops = 0) =>
     \A id \in DOMAIN vms :
        vms[id].alive => \E u \in Users : cache[u].serverId = id

\* C2: lab-switch safety.  From an empty system, provision(u, A), then, with
\* A's record running, provision(u, B), B # A, both admitted and no fault:
\* once everything has drained the user has a record, it has labId = B, and
\* no VM of lab A is alive.
C2_LabSwitchSafety ==
  (/\ boot = "empty" /\ AtRest /\ faults = 0 /\ drops = 0
   /\ Len(hist) = 2 /\ hist[1].kind = "prov" /\ hist[2].kind = "prov"
   /\ hist[1].intent.labId # hist[2].intent.labId /\ hist[2].run) =>
     LET u == hist[2].intent.user IN
       /\ Found(cache[u])
       /\ cache[u].labId = hist[2].intent.labId
       /\ \A id \in LiveVms(u) : vms[id].lab # hist[1].intent.labId

\* C3: whenever both queues are empty and no handler is in flight, a user
\* without a record has no live VM and a user with a record has exactly one
\* live VM, the one the record's serverId names (no cloud fault needed to
\* break it; intents dropped by the rate gate are allowed, as in a flood).
C3_CacheMatchesCloud ==
  (ConsistentBoot /\ AtRest /\ faults = 0) =>
     \A u \in Users :
        LiveVms(u) = IF Found(cache[u]) THEN {cache[u].serverId} ELSE {}

\* C4: a provision handler that reads a record with another labId goes on to
\* push {webuserid, labId = record.labId, serverId = record.serverId} at the
\* tail of the decommission queue; up to and including that push it leaves
\* the cache alone, and after it it carries on with the new lab (the write of
\* the initial record is its next step).
C4_SwitchEnqueuesOldServer ==
  [][\A i \in Slots :
       LET u == hs[i].user
           rec == cache[u]
           old == hs[i].existingState
       IN
       /\ (At(i, "prov", "rate") /\ Stepped(i)) => cache' = cache /\ decQ' = decQ
       /\ (At(i, "prov", "read") /\ Stepped(i) /\ Found(rec) /\ rec.labId # hs[i].labId) =>
            /\ hs'[i].pc = "enq"
            /\ hs'[i].existingState = rec
            /\ cache' = cache
            /\ decQ' = decQ
       /\ (At(i, "prov", "enq") /\ Stepped(i)) =>
            /\ Len(decQ') = Len(decQ) + 1
            /\ SubSeq(decQ', 1, Len(decQ)) = decQ
            /\ Key(decQ'[Len(decQ')]) =
                  [user |-> u, labId |-> old.labId, serverId |-> old.serverId]
            /\ cache' = cache
            /\ hs'[i].pc = "init"
            /\ hs'[i].labId = hs[i].labId
    ]_vars

\* A provision for another lab has just queued the decommission of the
\* server the record still names, and is about to write its initial record.
C4_Witness ==
  \E i \in Slots :
     /\ At(i, "prov", "init")
     /\ decQ # <<>>
     /\ LET d == decQ[Len(decQ)]
            rec == cache[hs[i].user]
        IN /\ d.tag = TagSynth(hs[i].tag)
           /\ d.serverId # 0
           /\ d.serverId = rec.serverId
           /\ d.labId = rec.labId
           /\ d.labId # hs[i].labId

\* C5: round trip.  From an empty system, provision(u, L), then, with the
\* record running, decommission(u, labId = L), both admitted and no fault:
\* once everything has drained the user has no cache entry and no live VM.
C5_RoundTripDone ==
  /\ boot = "empty" /\ AtRest /\ faults = 0 /\ drops = 0
  /\ Len(hist) = 2 /\ hist[1].kind = "prov" /\ hist[2].kind = "dec"
  /\ hist[2].intent.labId # 0 /\ hist[2].run

C5_RoundTrip ==
  C5_RoundTripDone =>
     LET u == hist[2].intent.user IN ~Found(cache[u]) /\ LiveVms(u) = {}

\* The round trip has run: the VM it created exists and is deleted.
C5_Witness ==
  C5_RoundTripDone /\ Len(vms) = 1 /\ ~vms[1].alive /\ cache = [u \in Users |-> NoRec]

\* C6: a provision handler that reads a record of its user with its own
\* labId returns at once: no server is created, nothing is pushed onto a
\* queue and the cache stays as it is (its rate-gate step before that touches
\* none of them either).
C6_DuplicateProvisionNoOp ==
  [][\A i \in Slots :
       LET rec == cache[hs[i].user] IN
       /\ (At(i, "prov", "rate") /\ Stepped(i)) =>
            cache' = cache /\ vms' = vms /\ decQ' = decQ /\ provQ' = provQ
       /\ (At(i, "prov", "read") /\ Stepped(i) /\ Found(rec) /\ rec.labId = hs[i].labId) =>
            /\ hs'[i] = Idle
            /\ cache' = cache
            /\ vms' = vms
            /\ decQ' = decQ
            /\ provQ' = provQ
    ]_vars

\* Two admitted provisions of the same lab have run from an empty system,
\* and the cloud holds the one server of the first.
C6_Witness ==
  /\ boot = "empty" /\ AtRest /\ faults = 0 /\ drops = 0
  /\ Len(hist) = 2 /\ hist[1].kind = "prov" /\ hist[2].kind = "prov"
  /\ hist[1].intent.labId = hist[2].intent.labId
  /\ Len(vms) = 1
  /\ \E u \in Users : cache[u].serverId = 1 /\ cache[u].labId = hist[2].intent.labId

\* C7: a decommission intent that names a serverId and repeats the request
\* handled last (nothing else ran in between, no cloud fault) changes neither
\* the cache nor the cloud.
C7_IdempotentDecommission ==
  [][\A i \in Slots :
       (/\ hs[i].kind = "dec" /\ Stepped(i)
        /\ hs[i].serverId # 0
        /\ Key(hs[i]) = lastDone
        /\ faults = 0 /\ faults' = 0) =>
          cache' = cache /\ vms' = vms
    ]_vars

\* C8: a decommission handler that reads a record whose labId differs from
\* the labId of its request, the request naming no serverId, returns at once
\* with the cache and the cloud as they were (its rate-gate step before that
\* touches neither).
C8_StaleDecommissionIgnored ==
  [][\A i \in Slots :
       LET rec == cache[hs[i].user] IN
       /\ (At(i, "dec", "rate") /\ Stepped(i)) => cache' = cache /\ vms' = vms
       /\ (/\ At(i, "dec", "read") /\ Stepped(i)
           /\ Found(rec) /\ hs[i].labId # 0 /\ rec.labId # hs[i].labId
           /\ hs[i].serverId = 0) =>
            hs'[i] = Idle /\ cache' = cache /\ vms' = vms
    ]_vars

\* A stale request {webuserid, labId} was admitted and handled against the
\* running record of another lab; record and servers are as they were.
C8_Witness ==
  /\ AtRest /\ drops = 0
  /\ Len(hist) = 1 /\ hist[1].kind = "dec"
  /\ hist[1].intent.labId # 0 /\ hist[1].intent.serverId = 0
  /\ lastDone = Key(hist[1].intent)
  /\ Found(cache[lastDone.user])
  /\ cache[lastDone.user].labId # lastDone.labId
  /\ cache = BootCache(boot)
  /\ vms = BootVms(boot)

\* C9: a decommission handler whose request names a serverId and that reads
\* no record, or a record with another labId than the request's, takes the
\* path that looks the server up by that id and deletes it: unless the cloud
\* call fails the named server is not alive afterwards, no other server is
\* touched, and no step of the path changes the cache.
C9_CachelessDelete ==
  [][\A i \in Slots :
       LET rec == cache[hs[i].user]
           id == hs[i].serverId
       IN
       /\ (/\ At(i, "dec", "read") /\ Stepped(i) /\ id # 0
           /\ (~Found(rec) \/ (hs[i].labId # 0 /\ rec.labId # hs[i].labId))) =>
            /\ hs'[i] = [hs[i] EXCEPT !.pc = "byId"]
            /\ cache' = cache
            /\ vms' = vms
       /\ (At(i, "dec", "byId") /\ Stepped(i)) =>
            /\ hs'[i] = IF ServerExists(id) THEN [hs[i] EXCEPT !.pc = "byIdDel"] ELSE Idle
            /\ cache' = cache
            /\ vms' = vms
       /\ (At(i, "dec", "byIdDel") /\ Stepped(i)) =>
            /\ hs'[i] = Idle
            /\ cache' = cache
            /\ faults' = faults => ~vms'[id].alive
            /\ DOMAIN vms' = DOMAIN vms
            /\ \A j \in DOMAIN vms \ {id} : vms'[j] = vms[j]
    ]_vars

\* A request {webuserid, serverId} was handled with no record in the cache:
\* the server it names is deleted and the cache is still empty.
C9_Witness ==
  /\ boot = "orphan" /\ AtRest /\ faults = 0 /\ drops = 0
  /\ Len(hist) = 1 /\ hist[1].kind = "dec" /\ hist[1].intent.serverId = 1
  /\ lastDone = Key(hist[1].intent)
  /\ ~vms[1].alive
  /\ cache = [u \in Users |-> NoRec]

\* C10: in the matching case the step that calls Delete leaves the cache and
\* both queues as they are; the handler goes on to remove the cache entry
\* exactly when the call deleted the server, and returns at once when it
\* failed; the step after a successful Delete removes the user's cache entry
\* and pushes nothing.
C10_DeleteFailureKeepsRecord ==
  [][\A i \in Slots :
       LET id == hs[i].serverState.serverId IN
       /\ (At(i, "dec", "del") /\ Stepped(i)) =>
            /\ cache' = cache
            /\ decQ' = decQ
            /\ provQ' = provQ
            /\ hs'[i] = IF vms[id].alive /\ ~vms'[id].alive
                          THEN [hs[i] EXCEPT !.pc = "rm"] ELSE Idle
       /\ (At(i, "dec", "rm") /\ Stepped(i)) =>
            /\ cache' = [cache EXCEPT ![hs[i].user] = NoRec]
            /\ hs'[i] = Idle
            /\ vms' = vms
            /\ decQ' = decQ
            /\ provQ' = provQ
    ]_vars

\* A matching decommission has returned after a failed Delete: the record,
\* marked stopping, is still in the cache, its server is alive and both
\* queues are empty.
C10_Witness ==
  /\ boot = "lab" /\ AtRest /\ faults = 1
  /\ Len(hist) = 1 /\ hist[1].kind = "dec"
  /\ LET rec == cache[hist[1].intent.user] IN
       /\ Found(rec)
       /\ rec.status = StatusStopping
       /\ vms[rec.serverId].alive

\* The rate-limit key of the intent handler i serves.
GateKey(i) ==
  RateLimitKey(hs[i].user, IF hs[i].kind = "prov" THEN "provision" ELSE "decommission")

\* C14: a handler passes the rate gate only in a step that finds the key of
\* its (user, operation) absent and sets it; while the key is held every
\* handler that reaches the gate is turned away, and no handler step ever
\* removes a key (only its TTL does).  So between the setting of a key and
\* its expiry exactly one intent is admitted, however many handlers call
\* the gate.
C14_OneAdmissionPerWindow ==
  [][\A i \in Slots :
       (hs[i].pc = "rate" /\ Stepped(i)) =>
          /\ IF GateKey(i) \in rl
               THEN hs'[i] = Idle /\ rl' = rl
               ELSE hs'[i] = [hs[i] EXCEPT !.pc = "read"] /\ rl' = rl \cup {GateKey(i)}
          /\ \A j \in Slots \ {i} : hs'[j] = hs[j]
    ]_vars

\* Two provision intents were popped; one holds the key and is past the
\* gate, the other was turned away.
C14_Witness ==
  /\ Len(hist) = 2 /\ hist[1].kind = "prov" /\ hist[2].kind = "prov"
  /\ provQ = <<>>
  /\ drops = 1
  /\ \E i \in Slots :
        /\ At(i, "prov", "read")
        /\ GateKey(i) \in rl
        /\ \A j \in Slots \ {i} : hs[j] = Idle

\* C15: a handler whose intent the rate gate denies returns in that step
\* and the step changes nothing else: no cache write or delete, no cloud
\* call, nothing pushed onto either queue, no key set.
C15_DeniedIntentDropped ==
  [][\A i \in Slots :
       (hs[i].pc = "rate" /\ Stepped(i) /\ GateKey(i) \in rl) =>
          /\ hs'[i] = Idle
          /\ cache' = cache
          /\ vms' = vms
          /\ provQ' = provQ
          /\ decQ' = decQ
          /\ rl' = rl
    ]_vars

\* Two provisions for different labs were pushed into an empty system and
\* have both been handled: one was denied, and the cloud holds the one
\* server of the other, which the record names.
C15_Witness ==
  /\ boot = "empty" /\ AtRest /\ faults = 0 /\ drops = 1
  /\ Len(hist) = 2 /\ hist[1].kind = "prov" /\ hist[2].kind = "prov"
  /\ hist[1].intent.labId # hist[2].intent.labId
  /\ Len(vms) = 1
  /\ \E u \in Users : cache[u].serverId = 1 /\ cache[u].labId = vms[1].lab

\* C16 as stated: a handler runs to completion before the next payload of
\* its queue is popped, so no two handlers of the same queue are ever in
\* flight together.
C16_OneHandlerPerQueue ==
  \A kind \in {"prov", "dec"} :
     Cardinality({i \in Slots : hs[i].kind = kind}) <= 1

\* C16, amended: each queue is popped at its head and grows at its tail, and
\* the popped payload is handed, in the same step, to a handler of its own
\* that starts at the rate gate (handlers of one queue may then run side by
\* side).
C16_PopsInQueueOrder ==
  [][/\ Len(provQ') < Len(provQ) =>
          /\ provQ' = Tail(provQ)
          /\ \E i \in Slots : hs[i] = Idle /\ hs'[i] = Spawn("prov", Head(provQ))
     /\ Len(decQ') < Len(decQ) =>
          /\ decQ' = Tail(decQ)
          /\ \E i \in Slots : hs[i] = Idle /\ hs'[i] = Spawn("dec", Head(decQ))
     /\ Len(provQ') >= Len(provQ) => SubSeq(provQ', 1, Len(provQ)) = provQ
     /\ Len(decQ') >= Len(decQ) => SubSeq(decQ', 1, Len(decQ)) = decQ
    ]_vars

\* Two provision payloads were popped in the order they were pushed and
\* their handlers are in flight together.
C16_Witness ==
  /\ Len(hist) = 2 /\ provQ = <<>>
  /\ hs[1].kind = "prov" /\ hs[1].tag = TagEnv(1) /\ hs[1].pc # "rate"
  /\ hs[2].kind = "prov" /\ hs[2].tag = TagEnv(2) /\ hs[2].pc # "rate"

\* C19: in the poll loop, a GetState error (here: the server is gone) or a
\* failed write of the changed record leads into handleProvisioningError:
\* its first step calls Delete on the server of this provision (the server
\* is not alive afterwards unless that call fails) and touches nothing else,
\* its second step removes the user's cache entry, and the handler returns.
C19_PollErrorIsFatal ==
  [][\A i \in Slots :
       LET id == hs[i].vm IN
       /\ (At(i, "prov", "poll") /\ Stepped(i) /\ ~vms[id].alive /\ faults' = faults) =>
            hs'[i] = [hs[i] EXCEPT !.pc = "errDel"] /\ cache' = cache /\ vms' = vms
       /\ (At(i, "prov", "update") /\ Stepped(i) /\ faults' # faults) =>
            hs'[i] = [hs[i] EXCEPT !.pc = "errDel"] /\ cache' = cache /\ vms' = vms
       /\ (At(i, "prov", "errDel") /\ Stepped(i)) =>
            /\ hs'[i] = [hs[i] EXCEPT !.pc = "errCache"]
            /\ cache' = cache
            /\ faults' = faults => ~vms'[id].alive
            /\ DOMAIN vms' = DOMAIN vms
            /\ \A j \in DOMAIN vms \ {id} : vms'[j] = vms[j]
       /\ (At(i, "prov", "errCache") /\ Stepped(i)) =>
            /\ hs'[i] = Idle
            /\ cache' = [cache EXCEPT ![hs[i].user] = NoRec]
            /\ vms' = vms
    ]_vars

\* One provision ran into an error in its poll loop: its server is deleted
\* and the user's cache entry is gone.
C19_Witness ==
  /\ boot = "empty" /\ AtRest /\ faults = 1
  /\ Len(hist) = 1 /\ hist[1].kind = "prov"
  /\ Len(vms) = 1 /\ ~vms[1].alive
  /\ cache = [u \in Users |-> NoRec]

\* C20: a CreateServer call that fails creates no server and leaves the
\* cache as it is; the handler's next and last step removes the user's cache
\* entry.
C20_CreateFailureClearsRecord ==
  [][\A i \in Slots :
       /\ (At(i, "prov", "create") /\ Stepped(i) /\ Len(vms') = Len(vms)) =>
            hs'[i] = [hs[i] EXCEPT !.pc = "createFail"] /\ cache' = cache /\ vms' = vms
       /\ (At(i, "prov", "createFail") /\ Stepped(i)) =>
            /\ hs'[i] = Idle
            /\ cache' = [cache EXCEPT ![hs[i].user] = NoRec]
            /\ vms' = vms
            /\ provQ' = provQ
            /\ decQ' = decQ
    ]_vars

\* One provision whose CreateServer failed has returned: no server exists
\* and the cache holds no record.
C20_Witness ==
  /\ boot = "empty" /\ AtRest /\ faults = 1
  /\ Len(hist) = 1 /\ hist[1].kind = "prov"
  /\ vms = <<>>
  /\ cache = [u \in Users |-> NoRec]

\* A step of the expiry sweep, and the intents the step appends.
SweepStep == sweeps' # sweeps
Pushed == SubSeq(decQ', Len(decQ) + 1, Len(decQ'))

C17_NoHandlerAfterWait ==
  phase = "returned" => Started = {}

\* C18: after the cancellation no cache record is written or deleted and no
\* VM is created or deleted.
C18_NoEffectAfterCancel ==
  [][phase # "run" =>
       /\ cache' = cache
       /\ DOMAIN vms' = DOMAIN vms
       /\ \A id \in DOMAIN vms : vms'[id].alive = vms[id].alive
    ]_vars

C24_RecordNamesCreatedVm ==
  \A i \in Slots :
     (/\ hs[i].kind = "prov" /\ hs[i].pc \in {"poll", "update"}
      /\ faults = 0 /\ drops = 0
      /\ Found(cache[hs[i].user])
      /\ cache[hs[i].user].labId = hs[i].labId
      /\ cache[hs[i].user].expiresAt = hs[i].exp) =>
        cache[hs[i].user].serverId = hs[i].vm

\* C25: every cache record that says available says running.
C25_AvailableImpliesRunning ==
  \A u \in Users : cache[u].available => cache[u].status = StatusRunning

\* A record written by the provisioner says available and running, its
\* server runs; a decommission for the user is queued after it.
C25_Witness ==
  /\ boot = "empty" /\ Len(hist) = 2
  /\ hist[1].kind = "prov" /\ hist[2].kind = "dec"
  /\ \E u \in Users :
        /\ cache[u].available
        /\ cache[u].serverId = 1
        /\ vms[1].state = "running"

\* C27: in every cache record that says running, available is what
\* isServerAvailable gives for the record's cloudStatus.
C27_AvailableMatchesTable ==
  \A u \in Users :
     cache[u].status = StatusRunning =>
        (cache[u].available <=> isServerAvailable(cache[u].cloudStatus))

\* A record the provisioner's poll loop has brought to running.
C27_Witness ==
  /\ boot = "empty" /\ AtRest /\ faults = 0
  /\ Len(hist) = 1 /\ hist[1].kind = "prov"
  /\ \E u \in Users :
        /\ cache[u].status = StatusRunning
        /\ cache[u].cloudStatus = "running"
        /\ cache[u].available

\* C29: a decommission intent without labId (and without serverId) takes
\* whatever record the user has.  With that intent the only one pushed, no
\* failed call and the intent admitted, once it has been handled the user's
\* cache entry is gone and the server the record named is deleted.
C29_DecommissionAny ==
  (/\ boot \in {"lab", "switched"} /\ AtRest /\ faults = 0 /\ drops = 0
   /\ Len(hist) = 1 /\ hist[1].kind = "dec"
   /\ hist[1].intent.labId = 0 /\ hist[1].intent.serverId = 0) =>
     LET u == hist[1].intent.user IN
       /\ ~Found(cache[u])
       /\ ~vms[BootCache(boot)[u].serverId].alive

\* The user's lab-2 record was decommissioned by an intent without labId.
C29_Witness ==
  /\ boot = "switched" /\ AtRest /\ faults = 0 /\ drops = 0
  /\ Len(hist) = 1 /\ hist[1].kind = "dec"
  /\ hist[1].intent.labId = 0 /\ hist[1].intent.serverId = 0
  /\ ~Found(cache[hist[1].intent.user])
  /\ ~vms[2].alive

\* ------------------------------------------------- cloud answers, store errors
\* deleteServer: GetServerByID returns an API error although the server
\* exists; the handler takes every error for "not found".
DecLookupErr(i) ==
  /\ At(i, "dec", "lookup")
  /\ faults < MaxFaults
  /\ ServerExists(hs[i].serverState.serverId)
  /\ hs' = Goto(i, "rmMissing")
  /\ faults' = faults + 1
  /\ UNCHANGED <<provQ, decQ, store, rl, vms, now, sweeps, swept, phase, hist,
                 drops, boot>>
  /\ lastDone' = Handled(i)

\* PushPayload of the decommission request fails: the error is logged and
\* the handler goes on to provision the new lab.
ProvEnqueueErr(i) ==
  /\ At(i, "prov", "enq")
  /\ faults < MaxFaults
  /\ hs' = [hs EXCEPT ![i].pc = "init", ![i].existingState = NoRec]
  /\ faults' = faults + 1
  /\ UNCHANGED <<provQ, decQ, store, rl, vms, now, sweeps, swept, phase, hist,
                 drops, boot>>
  /\ lastDone' = NoKey

\* One front-end intent and one sweep pass, with a store whose retried
\* calls may fail and a cloud that may return a server without an IPv6
\* network.
NextFault ==
  \/ Len(hist) < MaxSweepIntents /\ FrontEnd
  \/ Workers
  \/ Tick
  \/ sweeps < MaxShutdownSweeps /\ Sweep
  \/ \E i \in Slots : ProvCreateNoIPv6(i)
  \/ \E i \in Slots : StoreCallErrs(i)
  \/ \E i \in Slots : DecLookupErr(i)
  \/ \E i \in Slots : ProvEnqueueErr(i)

FaultSpec == Init /\ [][NextFault]_vars

\* C26: at every instant a cache record with available = true has a
\* non-empty address and a non-empty serverId.
C26_AvailableHasAddress ==
  \A u \in Users :
    cache[u].available => cache[u].address # 0 /\ cache[u].serverId # 0

\* C21: a store I/O error on the provisioner's rate-gate acquisition or on
\* its read of the existing record is retried for at most 3 attempts; the
\* third failure ends the handler with no cloud call and no cache write.  A
\* read that finds no record is a successful read: the handler goes on to
\* its initial write without another attempt.
C21_RetryThenAbort ==
  [][\A i \in Slots :
       (hs[i].kind = "prov" /\ hs[i].pc \in {"rate", "read"} /\ Stepped(i)) =>
         /\ hs'[i].pc = hs[i].pc =>
              /\ hs'[i] = [hs[i] EXCEPT !.attempt = @ + 1]
              /\ hs'[i].attempt < CacheReadRetryAttempts
              /\ cache' = cache /\ vms' = vms /\ rl' = rl
              /\ provQ' = provQ /\ decQ' = decQ
         /\ faults' # faults =>
              /\ hs[i].attempt + 1 = CacheReadRetryAttempts
              /\ hs'[i] = Idle
              /\ cache' = cache /\ vms' = vms /\ rl' = rl
              /\ provQ' = provQ /\ decQ' = decQ
         /\ (hs[i].pc = "read" /\ hs'[i].pc # "read" /\ faults' = faults
               /\ ~Found(cache[hs[i].user])) =>
              hs'[i].pc = "init" /\ hs'[i].attempt = 0]_vars

\* The third read of the existing record has failed: the rate gate was
\* passed, nothing was created and nothing was written.
C21_Witness ==
  /\ boot = "empty" /\ AtRest /\ faults = 1
  /\ Len(hist) = 1 /\ hist[1].kind = "prov"
  /\ rl = {RateLimitKey("u1", "provision")}
  /\ vms = <<>>
  /\ \A u \in Users : ~Found(cache[u])
  /\ decQ = <<>>

\* --------------------------------------------------- the poll loop in time
\* stateTimeout in ticks of the poll loop's clock, and how far past it the
\* clock is followed.
StateTimeoutTicks == 2
MaxOverrun == 1
MaxPollIntents == 1

\* Handler i is inside pollServerState: blocked in the select ("poll") or
\* in the middle of a round, writing the changed state ("update").
InLoop(i) == hs[i].kind = "prov" /\ hs[i].pc \in {"poll", "update"}

\* The channel of time.After(stateTimeout), made once before the loop, is
\* ready.
TimeoutDue(i) == hs[i].elapsed >= StateTimeoutTicks

\* Time passes for the poll loops in flight.  A select that has a ready
\* case does not wait, so time does not pass a handler blocked in the
\* select with its timeout due; it does pass a handler that is in the
\* middle of a round.
PollTick ==
  /\ \E i \in Slots : InLoop(i)
  /\ \A i \in Slots :
       InLoop(i) => /\ hs[i].elapsed < StateTimeoutTicks + MaxOverrun
                    /\ ~(hs[i].pc = "poll" /\ TimeoutDue(i))
  /\ hs' = [i \in Slots |->
             IF InLoop(i) THEN [hs[i] EXCEPT !.elapsed = @ + 1] ELSE hs[i]]
  /\ UNCHANGED <<provQ, decQ, store, rl, vms, now, sweeps, swept, phase, boot,
                 hist, drops, faults, lastDone>>

\* pollServerState, case <-timeout, taken when stateTimeout has passed
\* since the loop was entered.
ProvDeadline(i) ==
  /\ At(i, "prov", "poll")
  /\ TimeoutDue(i)
  /\ hs' = Return(i)
  /\ UNCHANGED <<provQ, decQ, store, rl, vms, now, sweeps, swept, phase, hist,
                 drops, faults, boot>>
  /\ lastDone' = NoKey

\* The provisioner on its own, with the process context never cancelled.
ProvSteps(i) ==
  \/ ProvRate(i) \/ ProvRead(i) \/ ProvEnqueue(i) \/ ProvInit(i)
  \/ ProvCreate(i) \/ ProvCreateFail(i) \/ ProvInitialState(i) \/ ProvWrite(i)
  \/ ProvPoll(i) \/ ProvUpdate(i) \/ ProvDeadline(i)
  \/ ProvErrorDelete(i) \/ ProvErrorCache(i)

NextPoll ==
  \/ Len(hist) < MaxPollIntents /\ \E u \in Actors, l \in Labs : PushProvision(u, l)
  \/ PopProvision
  \/ \E i \in Slots : ProvSteps(i)
  \/ \E id \in DOMAIN vms : VmRunning(id)
  \/ \E k \in rl : RateExpire(k)
  \/ PollTick

\* Time passes; a write to the store that was started returns; a select
\* whose timeout case is ready again and again takes it in the end (Go
\* chooses among the ready cases at random).
PollSpec ==
  /\ Init /\ [][NextPoll]_vars
  /\ WF_vars(PollTick)
  /\ \A i \in Slots : WF_vars(ProvUpdate(i)) /\ SF_vars(ProvDeadline(i))

\* C23 as stated: no poll loop is still running later than stateTimeout
\* after it started.
C23_EndsByDeadline ==
  \A i \in Slots : InLoop(i) => hs[i].elapsed <= StateTimeoutTicks

\* C23: every run of the poll loop ends, whether or not the server ever
\* runs and with the context never cancelled: once stateTimeout has passed
\* and the round in progress has returned, the select takes the timeout
\* case.
C23_PollLoopEnds ==
  \A i \in Slots : InLoop(i) ~> ~InLoop(i)

\* A loop has ended on its timeout: the server is alive and still
\* initializing, and its record still says provisioning.
C23_Witness ==
  /\ boot = "empty" /\ AtRest /\ faults = 0 /\ phase = "run"
  /\ Len(vms) = 1 /\ vms[1].alive /\ vms[1].state = "initializing"
  /\ cache["u1"].serverId = 1 /\ cache["u1"].status = StatusProvisioning

\* The keys of the store whose record carries the webUserId w.
RecordsOf(w) == {k \in CacheKeys : Found(store[k]) /\ store[k].webUserId = w}

\* C28: at every instant the store holds at most one record per webUserId,
\* whatever provision, lab-switch and decommission intents were handled
\* for that user.
C28_OneRecordPerUser == \A w \in Users : Cardinality(RecordsOf(w)) <= 1

\* A lab switch was handled: the user's one record is that of the new lab,
\* written over that of the old one.
C28_Witness ==
  /\ boot = "lab" /\ AtRest /\ faults = 0
  /\ Len(hist) = 1 /\ hist[1].kind = "prov" /\ hist[1].intent.labId = 2
  /\ RecordsOf("u1") = {ServerCacheKey("u1")}
  /\ cache["u1"].labId = 2 /\ Running(cache["u1"])

\* ------------------------------------------------------------- two users
\* Every user pushes at most one intent; the handlers of different users
\* run side by side.
FreshUser(u) == \A k \in DOMAIN hist : hist[k].intent.user # u

NextIsolation ==
  \/ \E u \in Users, l \in Labs : FreshUser(u) /\ PushProvision(u, l)
  \/ \E u \in Users, l \in Labs \cup {0}, s \in 0..Len(vms) :
        FreshUser(u) /\ PushDecommission(u, l, s)
  \/ Workers

IsolationSpec == Init /\ [][NextIsolation]_vars

\* C30: a step of a handler whose intent has webuserid A leaves the cache
\* record of every other user B as it is and deletes no server that was
\* created for B.
C30_UserIsolation ==
  [][\A i \in Slots :
       (hs[i].kind # "idle" /\ Stepped(i)) =>
          \A b \in Users \ {hs[i].user} :
            /\ cache'[b] = cache[b]
            /\ \A id \in DOMAIN vms :
                 (vms[id].owner = b /\ vms[id].alive) => vms'[id].alive]_vars

\* ------------------------------------------------ writers of one cache line
\* Two provisions of one user for different labs were pushed onto an empty
\* system, and handler i serves the first of them: a record of the second
\* lab is the record of the newer provision.
OlderOfTwo(i) ==
  /\ boot = "empty" /\ Len(hist) = 2
  /\ hist[1].kind = "prov" /\ hist[2].kind = "prov"
  /\ hist[1].intent.user = hist[2].intent.user
  /\ hist[1].intent.labId # hist[2].intent.labId
  /\ hs[i].kind = "prov" /\ hs[i].tag = hist[1].intent.tag

NewerRecord(i) ==
  /\ OlderOfTwo(i)
  /\ Found(cache[hs[i].user])
  /\ cache[hs[i].user].labId = hist[2].intent.labId

\* C34: the decommissioner's matching path changes only the record it
\* read: when the user's cache line holds a record of another lab by the
\* time the handler writes the stopping copy or removes the entry, that
\* record stays as it is.
C34_DecChangesOnlyReadRecord ==
  [][\A i \in Slots :
       (hs[i].kind = "dec" /\ hs[i].pc \in {"stopping", "rmMissing", "rm"}
         /\ Stepped(i)
         /\ Found(cache[hs[i].user])
         /\ cache[hs[i].user].labId # hs[i].serverState.labId) =>
          cache'[hs[i].user] = cache[hs[i].user]]_vars

\* C35: the post-create write and the poll-loop updates of the older of
\* two provisions do not replace the labId or serverId that the newer
\* provision stored under the user's key.
C35_OlderProvisionKeepsNewerRecord ==
  [][\A i \in Slots :
       (NewerRecord(i) /\ hs[i].pc \in {"write", "update"} /\ Stepped(i)) =>
          /\ cache'[hs[i].user].labId = cache[hs[i].user].labId
          /\ cache'[hs[i].user].serverId = cache[hs[i].user].serverId]_vars

\* C37: once a matching decommission has deleted the server and removed
\* the user's cache entry, the provision handler of that lab that is still
\* running does not write the entry again.
C37_NoWriteAfterDecommission ==
  [][\A i \in Slots :
       (/\ boot = "empty" /\ Len(hist) = 2
        /\ hist[1].kind = "prov" /\ hist[2].kind = "dec"
        /\ hist[2].intent.user = hist[1].intent.user
        /\ hist[2].intent.labId = hist[1].intent.labId
        /\ hs[i].kind = "prov" /\ Stepped(i)
        /\ hs[i].vm # 0 /\ ~vms[hs[i].vm].alive
        /\ ~Found(cache[hs[i].user])) =>
          ~Found(cache'[hs[i].user])]_vars

\* C38: the provisioner's failure paths (after a failed CreateServer and
\* in handleProvisioningError) leave a record that a newer provision of the
\* same user has written meanwhile.
C38_FailurePathKeepsNewerRecord ==
  [][\A i \in Slots :
       (NewerRecord(i) /\ hs[i].pc \in {"createFail", "errCache"} /\ Stepped(i)) =>
          cache'[hs[i].user] = cache[hs[i].user]]_vars

\* ------------------------------------------------------- payloads as text
\* A payload as it lies on the provision queue: text that is JSON or not,
\* and, if it is, the fields the object has.
RawPayload(json, has, u, l) ==
  [json |-> json, has |-> has, webuserid |-> u, labId |-> l]
RawPayloads ==
  {RawPayload(FALSE, {}, "", 0)}
    \cup {RawPayload(TRUE, h, IF "webuserid" \in h THEN u ELSE "",
                               IF "labId" \in h THEN l ELSE 0) :
            h \in SUBSET {"webuserid", "labId"}, u \in Actors, l \in Labs}

\* json.Unmarshal into struct{WebUserID string; LabID int}: text that is
\* not JSON is an error; a field the object lacks keeps its zero value.
UnmarshalFails(raw) == ~raw.json
Unmarshal(raw) ==
  Intent(IF "webuserid" \in raw.has THEN raw.webuserid ELSE "",
         IF "labId" \in raw.has THEN raw.labId ELSE 0, 0, TagEnv(1))

MaxPayloads == 1

PushRawProvision(raw) ==
  /\ Len(hist) < MaxPayloads
  /\ provQ' = Append(provQ, raw)
  /\ hist' = Append(hist, [kind |-> "raw", intent |-> raw, run |-> FALSE])
  /\ UNCHANGED <<decQ, store, rl, vms, hs, now, sweeps, swept, phase, drops, faults,
                 boot, lastDone>>

\* processQueue and the head of ProcessRequest: the handler of a payload
\* that does not parse returns at once.
PopRawProvision ==
  /\ provQ # <<>>
  /\ Free # {}
  /\ hs' = IF UnmarshalFails(Head(provQ)) THEN hs
             ELSE [hs EXCEPT ![FirstFree] = Spawn("prov", Unmarshal(Head(provQ)))]
  /\ provQ' = Tail(provQ)
  /\ UNCHANGED <<decQ, store, rl, vms, now, sweeps, swept, phase, hist, drops, faults,
                 boot, lastDone>>

NextParse ==
  \/ \E raw \in RawPayloads : PushRawProvision(raw)
  \/ PopRawProvision
  \/ \E i \in Slots : ProvSteps(i)
  \/ \E id \in DOMAIN vms : VmRunning(id)
  \/ \E k \in rl : RateExpire(k)
  \/ PollTick

ParseSpec == Init /\ [][NextParse]_vars

\* The payload pushed is not JSON, or lacks webuserid or labId.
Defective(raw) == ~raw.json \/ raw.has # {"webuserid", "labId"}

\* C31: a provision payload that is malformed or lacks webuserid or labId
\* has no effect: no rate-limit key is acquired, no cache record is
\* written and no server is created.
C31_DefectivePayloadNoEffect ==
  (Len(hist) = 1 /\ hist[1].kind = "raw" /\ Defective(hist[1].intent)) =>
     /\ rl = {}
     /\ \A k \in CacheKeys :
          IF \E u \in Users : k = ServerCacheKey(u)
            THEN store[k] = BootCache(boot)[CHOOSE u \in Users : k = ServerCacheKey(u)]
            ELSE store[k] = NoRec
     /\ vms = BootVms(boot)

\* ------------------------------------------------- expiresAt and the TTL
\* Time in minutes.  ProcessRequest reads DEFAULT_TTL_MINUTES: the default
\* is 30, replaced by whatever strconv.Atoi accepts.
DefaultTTLMinutes == 30
ServerCacheTTLMinutes == 1440
ttlMinutes(envTTL) ==
  IF envTTL.kind = "int" THEN envTTL.n ELSE DefaultTTLMinutes

TTLValues == {-30, 0, 1, 30, 60, 1439, 1440, 1441, 2880, 43200}
EnvOptions == {EnvUnset, EnvEmpty, EnvText} \cup {EnvInt(n) : n \in TTLValues}
WriteTimes == {0, 1, 1440}

\* A provision handler that has passed the rate gate and the read of the
\* existing record, under each value of the option and at each write time.
TTLInit ==
  /\ boot = "empty"
  /\ provQ = <<>>
  /\ decQ = <<>>
  /\ store = [k \in CacheKeys |-> NoRec]
  /\ rl = {RateLimitKey("u1", "provision")}
  /\ vms = <<>>
  /\ now \in WriteTimes
  /\ \E e \in EnvOptions :
       hs = [i \in Slots |->
               IF i = 1
                 THEN [Idle EXCEPT !.kind = "prov", !.pc = "ttl", !.user = "u1",
                                   !.labId = 1, !.tag = TagEnv(1), !.ttlEnv = e]
                 ELSE Idle]
  /\ sweeps = 0
  /\ swept = [u \in Users |-> NoRec]
  /\ phase = "run"
  /\ hist = <<>>
  /\ drops = 0
  /\ faults = 0
  /\ lastDone = NoKey

\* expiresAt := time.Now().Add(ttlMinutes minutes).
ProvTTL(i) ==
  /\ At(i, "prov", "ttl")
  /\ hs' = [hs EXCEPT ![i].pc = "ttlWrite",
                       ![i].exp = now + ttlMinutes(hs[i].ttlEnv),
                       ![i].writtenAt = now]
  /\ UNCHANGED <<provQ, decQ, store, rl, vms, now, sweeps, swept, phase, hist,
                 drops, faults, boot, lastDone>>

\* PushServerState(initialState) with the entry TTL config.ServerCacheTTL.
ProvTTLWrite(i) ==
  /\ At(i, "prov", "ttlWrite")
  /\ store' = PushServerState(hs[i].user,
                              InitialState(hs[i].user, hs[i].labId, hs[i].exp))
  /\ hs' = [hs EXCEPT ![i].pc = "ttlDone"]
  /\ UNCHANGED <<provQ, decQ, rl, vms, now, sweeps, swept, phase, hist, drops,
                 faults, boot, lastDone>>

NextTTL == \E i \in Slots : ProvTTL(i) \/ ProvTTLWrite(i)

TTLSpec == TTLInit /\ [][NextTTL]_vars

\* C32: for every record written, expiresAt is not later than the instant
\* at which the store's entry TTL evicts the entry: expiresAt minus the
\* write time is at most the cache TTL, whatever value of the option was
\* accepted.
C32_ExpiresWithinCacheTTL ==
  \A i \in Slots :
    At(i, "prov", "ttlDone") =>
      cache[hs[i].user].expiresAt - hs[i].writtenAt <= ServerCacheTTLMinutes

\* C40: the decommissioner removes the user's cache entry after a failed
\* lookup only when the VM named by the record's serverId does not exist;
\* a lookup error while that VM is alive does not delete the record.
C40_RemovesOnlyMissing ==
  [][\A i \in Slots :
       (At(i, "dec", "rmMissing") /\ Stepped(i)
          /\ ServerExists(hs[i].serverState.serverId))
         => cache'[hs[i].user] = cache[hs[i].user]]_vars

\* Two provision intents of one user for different labs on an empty
\* system, no decommission intent from the front-end, no fault.
TwoLabs ==
  /\ boot = "empty" /\ faults = 0
  /\ Len(hist) = 2 /\ hist[1].kind = "prov" /\ hist[2].kind = "prov"
  /\ hist[1].intent.user = hist[2].intent.user
  /\ hist[1].intent.labId # hist[2].intent.labId

\* C36: if a lab switch is admitted while the previous lab's record still
\* has an empty serverId, the VM the previous provision goes on to create is
\* still deleted in the end.  Here: the decommission handled last was the
\* synthetic one of the switch, it carried lab L and an empty serverId, and
\* nothing is queued or in flight any more; then no VM of lab L is alive.
C36_EarlySwitchDeletesOldVm ==
  (TwoLabs /\ AtRest /\ drops = 0) =>
     \A k \in 1..2 :
        lastDone = Key(Intent(hist[k].intent.user, hist[k].intent.labId, 0, TagNone)) =>
           \A id \in LiveVms(hist[k].intent.user) :
              vms[id].lab # hist[k].intent.labId

\* C39: in a lab switch the previous lab's VM is deleted in the end even if
\* the synthetic decommission intent never takes effect (its enqueue failed
\* or the decommission rate gate dropped it).  Here: the user had lab 1
\* running at start-up, a provision of another lab was admitted and its
\* record is in the cache, no cloud call failed, and nothing is queued or in
\* flight any more; then the VM of lab 1 is not alive.
C39_SwitchDeletesOldVm ==
  (/\ boot = "lab" /\ AtRest /\ faults = 0
   /\ Found(cache[BootUser])
   /\ cache[BootUser].labId # BootCache(boot)[BootUser].labId
   /\ \E k \in 1..Len(hist) :
        /\ hist[k].kind = "prov" /\ hist[k].intent.user = BootUser
        /\ hist[k].intent.labId = cache[BootUser].labId) =>
     ~ServerExists(BootCache(boot)[BootUser].serverId)

\* C33: every suspension point observes the cancellation; in particular a
\* task waiting in the delay between two attempts of a retried store call
\* (the rate gate, the read of the existing record) when the context is
\* cancelled stops waiting and makes no further attempt: its next step is
\* its return.
C33_RetryDelayObservesCancel ==
  [][\A i \in Slots :
       (/\ phase # "run"
        /\ <<hs[i].kind, hs[i].pc>> \in RetriedPcs
        /\ hs[i].attempt >= 1
        /\ Stepped(i)) => hs'[i] = Idle]_vars

====
